---- MODULE Spec2Model ----
(***************************************************************************)
(* SignedDataVerifier (src/src/signed_data_verifier.rs): verification of   *)
(* signed App Store envelopes (JWS) against a pinned set of root           *)
(* certificates, followed by the bundle id / app id / environment checks.  *)
(*                                                                         *)
(* Option<T> is a sequence of length 0 (None) or 1 (Some(v)).              *)
(* Result<T, E> and a panic are one record [tag, kind, claims].            *)
(***************************************************************************)
EXTENDS Integers, Sequences, FiniteSets, TLC

VARIABLES verifier, envelope, tx_result, notif_result, op, pc, frame

vars == <<verifier, envelope, tx_result, notif_result, op, pc, frame>>

----------------------------------------------------------------------------
(* Bounds of the input space *)

\* longest embedded certificate chain (x5c) an envelope carries
MaxChainLen == 2

\* number of distinct app identifiers decoded payloads carry
NumAppIds == 2

----------------------------------------------------------------------------
(* Values *)

None == <<>>
Some(v) == <<v>>
IsSome(o) == Len(o) = 1
Unwrap(o) == o[1]
Option(S) == {None} \cup {Some(v) : v \in S}

\* primitives::environment::Environment
Environment == {"Sandbox", "Production"}

BundleIds == {"com.example.app", "com.other.app"}
AppIds == 1..NumAppIds

\* jsonwebtoken::Algorithm names a header may declare; "none" is the
\* unsecured-JWS name, which the Algorithm enum has no variant for
ES256 == "ES256"
KnownAlgorithms == {"ES256", "ES384"}
DeclaredAlgorithms == KnownAlgorithms \cup {"none"}

\* SignedDataVerifierError variants (lines 11-27)
SignedDataVerifierError ==
    {"VerificationFailure", "InvalidAppIdentifier", "InvalidEnvironment",
     "InternalChainVerifierError", "InternalDecodeError"}

\* expect() messages of the two unwrapping call sites, and the slice panic
PanicSites == {"Expect header", "Expect Payload", "slice index"}

Ok(c) == [tag |-> "Ok", kind |-> "", claims |-> Some(c)]
Err(k) == [tag |-> "Err", kind |-> k, claims |-> None]
Panic(m) == [tag |-> "Panic", kind |-> m, claims |-> None]
NoResult == [tag |-> "NotCalled", kind |-> "", claims |-> None]

----------------------------------------------------------------------------
(* Certificates.  A certificate is an identifier standing for its DER      *)
(* bytes; Issuer gives the certificate whose key signed it.                *)
(*   1, 2 : self-signed roots     3 : leaf issued by 1 (P-256 key)         *)
(*   4    : leaf issued by 2 whose key is not an EC P-256 key (44 bytes)   *)

Certs == {1, 2, 3, 4}
Issuer(c) == CASE c = 1 -> 1 [] c = 2 -> 2 [] c = 3 -> 1 [] c = 4 -> 2
ShortKeyCerts == {4}

\* the uncompressed EC point of certificate c's key: 65 bytes
EcPoint(c) == [i \in 1..65 |-> c]

\* the public-key bytes of a certificate as the chain verifier returns them:
\* a 26-byte ASN.1 prefix followed by the 65-byte point, or a 44-byte key
PublicKeyBytes(c) ==
    IF c \in ShortKeyCerts
    THEN [i \in 1..44 |-> c]
    ELSE [i \in 1..91 |-> IF i <= 26 THEN 48 ELSE c]

\* a chain entry as carried in the header: base64 text of certificate c,
\* or text that is not base64
BadBase64 == 0
ChainEntries == Certs \cup {BadBase64}
Chains == UNION {[1..n -> ChainEntries] : n \in 0..MaxChainLen}

----------------------------------------------------------------------------
(* Decoded claims *)

\* JWSTransactionDecodedPayload: the fields the verifier reads (lines 55, 59)
JWSTransactionDecodedPayload ==
    [bundle_id : Option(BundleIds), environment : Option(Environment)]

\* Data / Summary of a notification: the fields the verifier reads (73-79)
SubRecord ==
    [bundle_id : Option(BundleIds), app_apple_id : Option(AppIds),
     environment : Option(Environment)]

\* ResponseBodyV2DecodedPayload: the fields the verifier reads (72, 76)
ResponseBodyV2DecodedPayload ==
    [data : Option(SubRecord), summary : Option(SubRecord)]

----------------------------------------------------------------------------
(* Signed envelopes.  A compact JWS has three segments:                    *)
(*   header    - json_ok: the segment is base64url JSON of a JWS header;   *)
(*               alg, x5c: what that JSON declares                         *)
(*   payload   - what the payload JSON deserializes to for each claim      *)
(*               type (None: it does not deserialize into that type)       *)
(*   signature - the certificate whose private key signed header.payload   *)

Header(j, a, x) == [json_ok |-> j, alg |-> a, x5c |-> x]
Payload(t, n) == [transaction |-> t, notification |-> n]
Envelope(h, p, s) == [header |-> h, payload |-> p, signature |-> s]

\* a segment that is not a JWS header declares nothing
UnparsableHeader == Header(FALSE, "none", None)

Headers ==
    {UnparsableHeader} \cup
    {Header(TRUE, a, x) : a \in DeclaredAlgorithms, x \in Option(Chains)}

\* headers whose chain is well formed and ends in root 1 or is root 2
SoundHeaders ==
    {Header(TRUE, ES256, Some(<<3, 1>>)), Header(TRUE, ES256, Some(<<2>>))}

SubA(b, a, e) == [bundle_id |-> b, app_apple_id |-> a, environment |-> e]

\* a few payloads, combined with every header and signer
SamplePayloads ==
    { Payload(None, None),
      Payload(Some([bundle_id |-> Some("com.example.app"),
                    environment |-> Some("Sandbox")]), None),
      Payload(Some([bundle_id |-> Some("com.example.app"),
                    environment |-> Some("Production")]), None),
      Payload(Some([bundle_id |-> None, environment |-> None]),
              Some([data |-> Some(SubA(Some("com.example.app"), Some(1),
                                       Some("Sandbox"))),
                    summary |-> None])),
      Payload(None,
              Some([data |-> None,
                    summary |-> Some(SubA(Some("com.example.app"), Some(1),
                                          Some("Production")))])) }

\* every payload of each claim type, combined with the sound headers
AllPayloads ==
    {Payload(Some(t), None) : t \in JWSTransactionDecodedPayload} \cup
    {Payload(None, Some(n)) : n \in ResponseBodyV2DecodedPayload}

Envelopes ==
    {Envelope(h, p, s) : h \in Headers, p \in SamplePayloads, s \in Certs}
    \cup
    {Envelope(h, p, Unwrap(h.x5c)[1]) : h \in SoundHeaders, p \in AllPayloads}

----------------------------------------------------------------------------
(* The verifier: SignedDataVerifier::new stores its four arguments         *)
(* (lines 37-48).                                                          *)

new(root_certificates, environment, bundle_id, app_apple_id) ==
    [root_certificates |-> root_certificates,
     environment |-> environment,
     bundle_id |-> bundle_id,
     app_apple_id |-> app_apple_id]

RootSets == {{1}, {1, 2}}

SignedDataVerifier ==
    {new(r, e, "com.example.app", a) :
        r \in RootSets, e \in Environment, a \in {None, Some(1)}}

----------------------------------------------------------------------------
(* Collaborators of decode_signed_object *)

\* jsonwebtoken::decode_header (line 96): the header segment must be JSON
\* of a JWS header and its alg a variant of jsonwebtoken::Algorithm
decode_header(signed_obj) ==
    IF signed_obj.header.json_ok /\ signed_obj.header.alg \in KnownAlgorithms
    THEN Some([alg |-> signed_obj.header.alg, x5c |-> signed_obj.header.x5c])
    ELSE None

\* StringExt::as_der_bytes (line 106): base64-decode one chain entry
as_der_bytes(c) == IF c = BadBase64 THEN None ELSE Some(c)

\* x5c.iter().map(|c| c.as_der_bytes()).collect() (line 106): the decoded
\* chain, or the error of an entry that does not decode
collect_der(x5c) ==
    IF \E i \in 1..Len(x5c) : as_der_bytes(x5c[i]) = None
    THEN None
    ELSE Some([i \in 1..Len(x5c) |-> Unwrap(as_der_bytes(x5c[i]))])

\* chain_verifier::verify_chain: a non-empty chain, each certificate issued
\* by the next one and the last one a trusted root, yields the leaf's
\* public-key bytes; anything else is a ChainVerifierError
verify_chain(chain, root_certificates) ==
    IF /\ Len(chain) > 0
       /\ \A i \in 1..(Len(chain) - 1) : Issuer(chain[i]) = chain[i + 1]
       /\ chain[Len(chain)] \in root_certificates
    THEN Some(PublicKeyBytes(chain[1]))
    ELSE None

\* the ES256 signature of an envelope verifies under the 65-byte point of
\* the key that made it and under no other key
signature_verifies(signed_obj, decoding_key) ==
    /\ signed_obj.signature \notin ShortKeyCerts
    /\ decoding_key = EcPoint(signed_obj.signature)

\* the payload segment deserialized into claim type T
deserialize(signed_obj, T) ==
    IF T = "transaction"
    THEN signed_obj.payload.transaction
    ELSE signed_obj.payload.notification

\* a decode with signature validation switched off
jwt_decode_unverified(signed_obj, decoding_key, T) ==
    IF signed_obj.header.alg = ES256
    THEN deserialize(signed_obj, T)
    ELSE None

\* jsonwebtoken::decode::<T> under Validation::new(ES256) with no expiry
\* and no required claims (lines 116-123): algorithm, then signature, then
\* deserialization
jwt_decode(signed_obj, decoding_key, T) ==
    IF /\ signed_obj.header.alg = ES256
       /\ signature_verifies(signed_obj, decoding_key)
    THEN deserialize(signed_obj, T)
    ELSE None

----------------------------------------------------------------------------
(* decode_signed_object (lines 95-125), check by check *)

\* lines 98-104: no x5c in the header, or an empty one
x5c_missing(header) ==
    \/ header.x5c = None
    \/ Unwrap(header.x5c) = <<>>

\* line 109
alg_rejected(header) == header.alg # ES256

\* a verifier that trusts whatever certificate ends the embedded chain
chain_public_key_self_trust(self, chain) ==
    verify_chain(chain, {chain[i] : i \in DOMAIN chain})

\* line 113: the chain is verified against the verifier's own roots
chain_public_key(self, chain) == verify_chain(chain, self.root_certificates)

\* line 114: pub_key[pub_key.len() - 65..]; the subtraction or the slice
\* panics when the key has fewer than 65 bytes
EC_POINT_LEN == 65
slice_panics(pub_key) == Len(pub_key) < EC_POINT_LEN
ec_point(pub_key) ==
    SubSeq(pub_key, Len(pub_key) - EC_POINT_LEN + 1, Len(pub_key))

decode_signed_object(self, signed_obj, T) ==
    LET hdr == decode_header(signed_obj) IN
    IF hdr = None THEN Panic("Expect header")
    ELSE LET header == Unwrap(hdr) IN
    IF x5c_missing(header) THEN Err("VerificationFailure")
    ELSE LET x5c == collect_der(Unwrap(header.x5c)) IN
    IF x5c = None THEN Err("InternalDecodeError")
    ELSE LET chain == Unwrap(x5c) IN
    IF alg_rejected(header) THEN Err("VerificationFailure")
    ELSE LET key == chain_public_key(self, chain) IN
    IF key = None THEN Err("InternalChainVerifierError")
    ELSE LET pub_key == Unwrap(key) IN
    IF slice_panics(pub_key) THEN Panic("slice index")
    ELSE LET payload == jwt_decode(signed_obj, ec_point(pub_key), T) IN
    IF payload = None THEN Panic("Expect Payload")
    ELSE Ok(Unwrap(payload))

----------------------------------------------------------------------------
(* verify_and_decode_signed_transaction (lines 52-64) *)

\* a comparison that lets an absent bundle id through
tx_identity_mismatch_absent_ok(self, tx) ==
    tx.bundle_id # None /\ tx.bundle_id # Some(self.bundle_id)

\* line 55
tx_identity_mismatch(self, tx) == tx.bundle_id # Some(self.bundle_id)

\* a comparison that lets an absent environment through
environment_mismatch_absent_ok(self, environment) ==
    environment # None /\ environment # Some(self.environment)

\* lines 59 and 88
environment_mismatch(self, environment) ==
    environment # Some(self.environment)

verify_and_decode_signed_transaction(self, signed_transaction) ==
    LET decoded == decode_signed_object(self, signed_transaction,
                                        "transaction") IN
    IF decoded.tag # "Ok" THEN decoded
    ELSE LET decoded_signed_tx == Unwrap(decoded.claims) IN
    IF tx_identity_mismatch(self, decoded_signed_tx)
    THEN Err("InvalidAppIdentifier")
    ELSE IF environment_mismatch(self, decoded_signed_tx.environment)
    THEN Err("InvalidEnvironment")
    ELSE Ok(decoded_signed_tx)

----------------------------------------------------------------------------
(* verify_and_decode_notification (lines 65-93) *)

\* a selection that prefers summary over data
select_sub_record_summary_first(notification) ==
    IF IsSome(notification.summary) THEN notification.summary
    ELSE IF IsSome(notification.data) THEN notification.data
    ELSE None

\* lines 72-82: data when present, else summary, else neither
select_sub_record(notification) ==
    IF IsSome(notification.data) THEN notification.data
    ELSE IF IsSome(notification.summary) THEN notification.summary
    ELSE None

\* a comparison of the app identifier under every environment
notif_identity_mismatch_always_app(self, sub) ==
    \/ sub.bundle_id # Some(self.bundle_id)
    \/ sub.app_apple_id # self.app_apple_id

\* line 84
notif_identity_mismatch(self, sub) ==
    \/ sub.bundle_id # Some(self.bundle_id)
    \/ /\ self.environment = "Production"
       /\ sub.app_apple_id # self.app_apple_id

verify_and_decode_notification(self, signed_payload) ==
    LET decoded == decode_signed_object(self, signed_payload,
                                        "notification") IN
    IF decoded.tag # "Ok" THEN decoded
    ELSE LET decoded_signed_notification == Unwrap(decoded.claims)
             selected == select_sub_record(decoded_signed_notification) IN
    IF selected = None THEN Err("InvalidAppIdentifier")
    ELSE IF notif_identity_mismatch(self, Unwrap(selected))
    THEN Err("InvalidAppIdentifier")
    ELSE IF environment_mismatch(self, Unwrap(selected).environment)
    THEN Err("InvalidEnvironment")
    ELSE Ok(decoded_signed_notification)

----------------------------------------------------------------------------
(* Spec: a verifier, an envelope, and calls that run to completion *)

NoFrame == [header |-> None, chain |-> None, pub_key |-> None,
            claims |-> None, selected |-> None]

\* envelopes a caller may hand over next
NextEnvelopes ==
    {Envelope(h, p, 3) :
        h \in {UnparsableHeader, Header(TRUE, ES256, Some(<<3, 1>>))},
        p \in SamplePayloads}

Init ==
    /\ verifier \in SignedDataVerifier
    /\ envelope \in Envelopes
    /\ tx_result = NoResult
    /\ notif_result = NoResult
    /\ op = "none"
    /\ pc = "idle"
    /\ frame = NoFrame

VerifyTransaction ==
    /\ tx_result' = verify_and_decode_signed_transaction(verifier, envelope)
    /\ UNCHANGED <<verifier, envelope, notif_result, op, pc, frame>>

VerifyNotification ==
    /\ notif_result' = verify_and_decode_notification(verifier, envelope)
    /\ UNCHANGED <<verifier, envelope, tx_result, op, pc, frame>>

Receive ==
    /\ envelope' \in NextEnvelopes \ {envelope}
    /\ tx_result' = NoResult
    /\ notif_result' = NoResult
    /\ UNCHANGED <<verifier, op, pc, frame>>

Next == VerifyTransaction \/ VerifyNotification \/ Receive

Spec == Init /\ [][Next]_vars

ResultType ==
    {NoResult}
    \cup {Err(k) : k \in SignedDataVerifierError}
    \cup {Panic(m) : m \in PanicSites}
    \cup {Ok(c) : c \in JWSTransactionDecodedPayload}
    \cup {Ok(c) : c \in ResponseBodyV2DecodedPayload}

TypeOK ==
    /\ verifier \in SignedDataVerifier
    /\ envelope \in Envelopes
    /\ envelope.header.alg \in DeclaredAlgorithms
    /\ tx_result \in ResultType
    /\ notif_result \in ResultType

----------------------------------------------------------------------------
(* SpecStages: the same two operations, one check of the code per step.    *)
(* pc is the position inside the running call, frame its local variables. *)

ClaimType == IF op = "transaction" THEN "transaction" ELSE "notification"

\* the call returns r (a return statement, a ? that propagates, a panic)
Return(r) ==
    /\ pc' = "done"
    /\ IF op = "transaction"
       THEN tx_result' = r /\ UNCHANGED notif_result
       ELSE notif_result' = r /\ UNCHANGED tx_result
    /\ UNCHANGED <<verifier, envelope, op, frame>>

\* the call goes on to the next check with its locals updated
Goto(next_pc, next_frame) ==
    /\ pc' = next_pc
    /\ frame' = next_frame
    /\ UNCHANGED <<verifier, envelope, op, tx_result, notif_result>>

\* line 52: verify_and_decode_signed_transaction is entered
CallTransaction ==
    /\ pc \in {"idle", "done"}
    /\ op' = "transaction"
    /\ pc' = "decode_header"
    /\ frame' = NoFrame
    /\ tx_result' = NoResult
    /\ UNCHANGED <<verifier, envelope, notif_result>>

\* line 65: verify_and_decode_notification is entered
CallNotification ==
    /\ pc \in {"idle", "done"}
    /\ op' = "notification"
    /\ pc' = "decode_header"
    /\ frame' = NoFrame
    /\ notif_result' = NoResult
    /\ UNCHANGED <<verifier, envelope, tx_result>>

\* line 96
StepDecodeHeader ==
    /\ pc = "decode_header"
    /\ LET hdr == decode_header(envelope) IN
       IF hdr = None THEN Return(Panic("Expect header"))
       ELSE Goto("x5c", [frame EXCEPT !.header = hdr])

\* lines 98-104
StepCheckX5c ==
    /\ pc = "x5c"
    /\ IF x5c_missing(Unwrap(frame.header))
       THEN Return(Err("VerificationFailure"))
       ELSE Goto("der", frame)

\* lines 106-107
StepDecodeChain ==
    /\ pc = "der"
    /\ LET x5c == collect_der(Unwrap(Unwrap(frame.header).x5c)) IN
       IF x5c = None THEN Return(Err("InternalDecodeError"))
       ELSE Goto("alg", [frame EXCEPT !.chain = x5c])

\* lines 109-111
StepCheckAlg ==
    /\ pc = "alg"
    /\ IF alg_rejected(Unwrap(frame.header))
       THEN Return(Err("VerificationFailure"))
       ELSE Goto("verify_chain", frame)

\* line 113
StepVerifyChain ==
    /\ pc = "verify_chain"
    /\ LET key == chain_public_key(verifier, Unwrap(frame.chain)) IN
       IF key = None THEN Return(Err("InternalChainVerifierError"))
       ELSE Goto("slice", [frame EXCEPT !.pub_key = key])

\* line 114
StepSliceKey ==
    /\ pc = "slice"
    /\ IF slice_panics(Unwrap(frame.pub_key))
       THEN Return(Panic("slice index"))
       ELSE Goto("jwt", [frame EXCEPT
                            !.pub_key = Some(ec_point(Unwrap(frame.pub_key)))])

\* lines 116-124, then back in the caller at line 53 or 66
StepJwtDecode ==
    /\ pc = "jwt"
    /\ LET payload == jwt_decode(envelope, Unwrap(frame.pub_key), ClaimType)
       IN
       IF payload = None THEN Return(Panic("Expect Payload"))
       ELSE Goto(IF op = "transaction" THEN "identity" ELSE "select",
                 [frame EXCEPT !.claims = payload])

\* lines 72-82
StepSelectSubRecord ==
    /\ pc = "select"
    /\ LET selected == select_sub_record(Unwrap(frame.claims)) IN
       IF selected = None THEN Return(Err("InvalidAppIdentifier"))
       ELSE Goto("identity", [frame EXCEPT !.selected = selected])

\* lines 55-57 and 84-86
StepCheckIdentity ==
    /\ pc = "identity"
    /\ IF IF op = "transaction"
          THEN tx_identity_mismatch(verifier, Unwrap(frame.claims))
          ELSE notif_identity_mismatch(verifier, Unwrap(frame.selected))
       THEN Return(Err("InvalidAppIdentifier"))
       ELSE Goto("environment", frame)

\* lines 59-63 and 88-92
StepCheckEnvironment ==
    /\ pc = "environment"
    /\ IF environment_mismatch(verifier,
             IF op = "transaction"
             THEN Unwrap(frame.claims).environment
             ELSE Unwrap(frame.selected).environment)
       THEN Return(Err("InvalidEnvironment"))
       ELSE Return(Ok(Unwrap(frame.claims)))

InitStages == Init

NextStages ==
    \/ CallTransaction
    \/ CallNotification
    \/ StepDecodeHeader
    \/ StepCheckX5c
    \/ StepDecodeChain
    \/ StepCheckAlg
    \/ StepVerifyChain
    \/ StepSliceKey
    \/ StepJwtDecode
    \/ StepSelectSubRecord
    \/ StepCheckIdentity
    \/ StepCheckEnvironment

SpecStages == InitStages /\ [][NextStages]_vars

----------------------------------------------------------------------------
(* Vocabulary of the properties *)

TxCalled == tx_result.tag # "NotCalled"
NotifCalled == notif_result.tag # "NotCalled"

\* the results of the calls made on the current envelope
Returned == {r \in {tx_result, notif_result} : r.tag # "NotCalled"}

\* the error kind a returned error variant stands for
SpecKind(r) ==
    CASE r.tag # "Err" -> "none"
      [] r.kind = "VerificationFailure" -> "VerificationFailure"
      [] r.kind = "InvalidAppIdentifier" -> "IdentityMismatch"
      [] r.kind = "InvalidEnvironment" -> "EnvironmentMismatch"
      [] r.kind = "InternalChainVerifierError" -> "ChainInvalid"
      [] r.kind = "InternalDecodeError" -> "MalformedChain"

\* outcome of a call without the claims it carries
Outcome(r) == <<r.tag, r.kind>>

HeaderParses(e) == e.header.json_ok /\ e.header.alg \in KnownAlgorithms
HasChain(e) == e.header.x5c # None /\ e.header.x5c # Some(<<>>)
ChainDecodes(e) ==
    HasChain(e) /\ \A i \in DOMAIN Unwrap(e.header.x5c) :
                       Unwrap(e.header.x5c)[i] # BadBase64

\* the envelope's chain resolves to a root the verifier trusts
ChainResolves(v, e) ==
    /\ HeaderParses(e)
    /\ ChainDecodes(e)
    /\ verify_chain(Unwrap(e.header.x5c), v.root_certificates) # None

Leaf(e) == Unwrap(e.header.x5c)[1]

\* the envelope passes chain and signature verification and its payload
\* decodes into claim type T
Verified(v, e, T) ==
    /\ ChainResolves(v, e)
    /\ e.header.alg = ES256
    /\ Leaf(e) \notin ShortKeyCerts
    /\ e.signature = Leaf(e)
    /\ deserialize(e, T) # None

TxClaims(e) == Unwrap(e.payload.transaction)
NotifClaims(e) == Unwrap(e.payload.notification)

\* the sub-record of a notification that carries identity and environment
HasSub(n) == n.data # None \/ n.summary # None
Sub(n) == IF n.data # None THEN Unwrap(n.data) ELSE Unwrap(n.summary)

----------------------------------------------------------------------------
(* C1 - trust gate *)

\* C1 as stated, for envelopes whose header can be read: whenever the
\* envelope's chain does not resolve to a trusted root, each call ends in
\* an error of kind ChainInvalid or VerificationFailure and returns no
\* claims.
C1_AsStated ==
    \A r \in Returned :
        (HeaderParses(envelope) /\ ~ChainResolves(verifier, envelope)) =>
            /\ r.tag = "Err"
            /\ SpecKind(r) \in {"ChainInvalid", "VerificationFailure"}
            /\ r.claims = None

\* C1 amended: whenever the envelope's chain does not resolve to a trusted
\* root, no call returns claims; a call that returns an error returns one
\* of kind ChainInvalid, VerificationFailure or MalformedChain, MalformedChain
\* exactly when the header has a non-empty chain with an entry that is not
\* base64; and the call aborts instead exactly when the header does not
\* parse.
C1_TrustGate ==
    \A r \in Returned :
        ~ChainResolves(verifier, envelope) =>
            /\ r.tag # "Ok"
            /\ r.claims = None
            /\ r.tag = "Panic" <=> ~HeaderParses(envelope)
            /\ r.tag = "Panic" => r.kind = "Expect header"
            /\ r.tag = "Err" =>
                  SpecKind(r) \in {"ChainInvalid", "VerificationFailure",
                                   "MalformedChain"}
            /\ SpecKind(r) = "MalformedChain" <=>
                  /\ HeaderParses(envelope)
                  /\ HasChain(envelope)
                  /\ ~ChainDecodes(envelope)

\* C1 witness: a well-formed ES256 envelope whose decodable chain ends in a
\* root the verifier does not trust was rejected by both operations with
\* the chain verifier's error.
C1_Witness ==
    /\ TxCalled /\ NotifCalled
    /\ HeaderParses(envelope) /\ ChainDecodes(envelope)
    /\ envelope.header.alg = ES256
    /\ envelope.header.x5c = Some(<<2>>)
    /\ envelope.signature = 2
    /\ 2 \notin verifier.root_certificates
    /\ tx_result = Err("InternalChainVerifierError")
    /\ notif_result = Err("InternalChainVerifierError")

----------------------------------------------------------------------------
(* C3 - algorithm pinning *)

DeclaresOtherAlg(e) == e.header.json_ok /\ e.header.alg # ES256

\* C3: every envelope whose header declares an algorithm other than ES256
\* fails with the UnsupportedAlgorithm kind, whatever else it contains.
C3_AlgorithmPinning ==
    \A r \in Returned :
        DeclaresOtherAlg(envelope) =>
            r.tag = "Err" /\ SpecKind(r) = "UnsupportedAlgorithm"

----------------------------------------------------------------------------
(* C7 - missing chain *)

\* the header is JSON of a JWS header and carries no certificate
ChainMissing(e) == e.header.json_ok /\ ~HasChain(e)

\* C7: a header without a chain, or with an empty one, fails with the
\* MissingChain kind, a kind distinct from the one the code reports for an
\* unsupported algorithm (line 110) and from the one of a failed signature
\* check.
C7_MissingChain ==
    \A r \in Returned :
        ChainMissing(envelope) =>
            /\ r.tag = "Err"
            /\ SpecKind(r) = "MissingChain"
            /\ SpecKind(r) # SpecKind(Err("VerificationFailure"))

----------------------------------------------------------------------------
(* C9 - every failure is a typed error *)

\* C9: every call ends with a result, claims or a typed error; none aborts.
\* An unparsable header, a leaf key shorter than 65 bytes, a signature that
\* does not verify and a payload that does not deserialize each end in an
\* error result.
C9_NeverAborts ==
    \A r \in Returned : r.tag \in {"Ok", "Err"}

----------------------------------------------------------------------------
(* C4 - identity isolation *)

\* C4: when the envelope passes chain and signature verification and the
\* decoded bundle id (of the transaction, or of the notification's selected
\* sub-record) is absent or differs from the configured one, the call fails
\* with IdentityMismatch and returns no claims.
C4_IdentityIsolation ==
    /\ (TxCalled /\ Verified(verifier, envelope, "transaction")
          /\ TxClaims(envelope).bundle_id # Some(verifier.bundle_id))
        => (SpecKind(tx_result) = "IdentityMismatch"
              /\ tx_result.claims = None)
    /\ (NotifCalled /\ Verified(verifier, envelope, "notification")
          /\ HasSub(NotifClaims(envelope))
          /\ Sub(NotifClaims(envelope)).bundle_id # Some(verifier.bundle_id))
        => (SpecKind(notif_result) = "IdentityMismatch"
              /\ notif_result.claims = None)

\* C4 witness: a verified transaction of another bundle, with the
\* configured environment, was rejected with InvalidAppIdentifier.
C4_Witness ==
    /\ TxCalled
    /\ Verified(verifier, envelope, "transaction")
    /\ TxClaims(envelope).bundle_id = Some("com.other.app")
    /\ TxClaims(envelope).environment = Some(verifier.environment)
    /\ tx_result = Err("InvalidAppIdentifier")

----------------------------------------------------------------------------
(* C5 - environment isolation *)

\* the decoded environment is absent or is not the configured one
EnvDiffers(v, environment) == environment # Some(v.environment)

\* the decoded environment is present and is not the configured one
EnvIsOther(v, environment) ==
    environment # None /\ environment # Some(v.environment)

\* C5 as stated: when the envelope passes chain and signature verification
\* and the decoded environment differs from the configured one, the call
\* fails with EnvironmentMismatch, whatever the bundle id and the app
\* identifier are.
C5_AsStated ==
    /\ (TxCalled /\ Verified(verifier, envelope, "transaction")
          /\ EnvIsOther(verifier, TxClaims(envelope).environment))
        => SpecKind(tx_result) = "EnvironmentMismatch"
    /\ (NotifCalled /\ Verified(verifier, envelope, "notification")
          /\ HasSub(NotifClaims(envelope))
          /\ EnvIsOther(verifier, Sub(NotifClaims(envelope)).environment))
        => SpecKind(notif_result) = "EnvironmentMismatch"

\* the identity comparisons of a sub-record against the configuration
IdentityMatches(v, sub) ==
    /\ sub.bundle_id = Some(v.bundle_id)
    /\ v.environment = "Production" => sub.app_apple_id = v.app_apple_id

\* C5 amended: when the envelope passes chain and signature verification,
\* its bundle id equals the configured one (and, for a notification under
\* a Production verifier, its app identifier equals the configured one) and
\* the decoded environment differs from the configured one, the call fails
\* with EnvironmentMismatch; with a differing identity it fails with
\* IdentityMismatch instead.
C5_EnvironmentIsolation ==
    /\ (TxCalled /\ Verified(verifier, envelope, "transaction")
          /\ EnvDiffers(verifier, TxClaims(envelope).environment))
        => SpecKind(tx_result) =
              IF TxClaims(envelope).bundle_id = Some(verifier.bundle_id)
              THEN "EnvironmentMismatch" ELSE "IdentityMismatch"
    /\ (NotifCalled /\ Verified(verifier, envelope, "notification")
          /\ HasSub(NotifClaims(envelope))
          /\ EnvDiffers(verifier, Sub(NotifClaims(envelope)).environment))
        => SpecKind(notif_result) =
              IF IdentityMatches(verifier, Sub(NotifClaims(envelope)))
              THEN "EnvironmentMismatch" ELSE "IdentityMismatch"

\* C5 witness: a verified notification of the configured bundle and app
\* whose data names the other environment was rejected with
\* InvalidEnvironment.
C5_Witness ==
    /\ NotifCalled
    /\ Verified(verifier, envelope, "notification")
    /\ NotifClaims(envelope).data # None
    /\ IdentityMatches(verifier, Sub(NotifClaims(envelope)))
    /\ verifier.environment = "Production"
    /\ Sub(NotifClaims(envelope)).environment = Some("Sandbox")
    /\ notif_result = Err("InvalidEnvironment")

----------------------------------------------------------------------------
(* C6 - app identifier only under Production *)

\* the notification envelope with the app identifier of both sub-records
\* replaced
WithAppId(e, a) ==
    LET n == NotifClaims(e)
        put(o) == IF o = None THEN None
                  ELSE Some([Unwrap(o) EXCEPT !.app_apple_id = a])
    IN [e EXCEPT !.payload.notification =
            Some([data |-> put(n.data), summary |-> put(n.summary)])]

\* C6: under a Production verifier a verified notification of the
\* configured bundle fails with IdentityMismatch exactly when the selected
\* sub-record's app_apple_id differs from the configured app identifier
\* (one side absent and the other present included); under a Sandbox
\* verifier the outcome is the same for every app_apple_id in the payload
\* and every configured app identifier.
C6_AppIdOnlyInProduction ==
    (NotifCalled /\ envelope.payload.notification # None) =>
        /\ (verifier.environment = "Production"
              /\ Verified(verifier, envelope, "notification")
              /\ HasSub(NotifClaims(envelope))
              /\ Sub(NotifClaims(envelope)).bundle_id
                    = Some(verifier.bundle_id))
            => (SpecKind(notif_result) = "IdentityMismatch"
                  <=> Sub(NotifClaims(envelope)).app_apple_id
                        # verifier.app_apple_id)
        /\ verifier.environment = "Sandbox"
            => \A a \in Option(AppIds), c \in Option(AppIds) :
                  Outcome(verify_and_decode_notification(
                              [verifier EXCEPT !.app_apple_id = c],
                              WithAppId(envelope, a)))
                    = Outcome(notif_result)

\* C6 witness: a Production verifier configured with app identifier 1
\* rejected a verified notification of its bundle and environment whose
\* data carries app_apple_id 2.
C6_Witness ==
    /\ NotifCalled
    /\ verifier.environment = "Production"
    /\ verifier.app_apple_id = Some(1)
    /\ Verified(verifier, envelope, "notification")
    /\ NotifClaims(envelope).data # None
    /\ Sub(NotifClaims(envelope)).bundle_id = Some(verifier.bundle_id)
    /\ Sub(NotifClaims(envelope)).environment = Some("Production")
    /\ Sub(NotifClaims(envelope)).app_apple_id = Some(2)
    /\ notif_result = Err("InvalidAppIdentifier")

----------------------------------------------------------------------------
(* C10 - one sub-record decides *)

\* what the identity and environment rules give for one sub-record
SubOutcome(v, sub) ==
    IF sub.bundle_id # Some(v.bundle_id) THEN <<"Err", "InvalidAppIdentifier">>
    ELSE IF v.environment = "Production" /\ sub.app_apple_id # v.app_apple_id
      THEN <<"Err", "InvalidAppIdentifier">>
    ELSE IF sub.environment # Some(v.environment)
      THEN <<"Err", "InvalidEnvironment">>
    ELSE <<"Ok", "">>

\* C10: for a verified notification the outcome is decided by data alone
\* whenever data is present, by summary alone when data is absent, and is
\* IdentityMismatch when both are absent.
C10_SubRecordSelection ==
    (NotifCalled /\ Verified(verifier, envelope, "notification")) =>
        LET n == NotifClaims(envelope) IN
        /\ n.data # None =>
              Outcome(notif_result) = SubOutcome(verifier, Unwrap(n.data))
        /\ (n.data = None /\ n.summary # None) =>
              Outcome(notif_result) = SubOutcome(verifier, Unwrap(n.summary))
        /\ (n.data = None /\ n.summary = None) =>
              notif_result = Err("InvalidAppIdentifier")
        /\ notif_result.tag = "Ok" => notif_result.claims = Some(n)

\* C10 witness: a notification whose data matches the configuration and
\* whose summary names another bundle and environment was accepted.
C10_Witness ==
    /\ NotifCalled
    /\ Verified(verifier, envelope, "notification")
    /\ NotifClaims(envelope).data # None
    /\ NotifClaims(envelope).summary # None
    /\ Unwrap(NotifClaims(envelope).summary).bundle_id = Some("com.other.app")
    /\ EnvDiffers(verifier, Unwrap(NotifClaims(envelope).summary).environment)
    /\ notif_result.tag = "Ok"

----------------------------------------------------------------------------
(* C2 - the stages of a call, checked under SpecStages *)

Running == pc \notin {"idle", "done"}

\* the result variable of the operation being run
Current == IF op = "transaction" THEN tx_result ELSE notif_result

\* how far the running call has come:
\* 0 not started, 1 chain verified, 2 signature verified,
\* 3 identity checked, 4 environment checked (claims returned)
Stage ==
    CASE pc \in {"decode_header", "x5c", "der", "alg", "verify_chain"} -> 0
      [] pc \in {"slice", "jwt"} -> 1
      [] pc \in {"select", "identity"} -> 2
      [] pc = "environment" -> 3
      [] pc = "done" /\ Current.tag = "Ok" -> 4
      [] OTHER -> 0 - 1

\* identity and environment of the decoded claims equal the configuration
ClaimsMatch(v, e, T) ==
    IF T = "transaction"
    THEN /\ TxClaims(e).bundle_id = Some(v.bundle_id)
         /\ TxClaims(e).environment = Some(v.environment)
    ELSE /\ HasSub(NotifClaims(e))
         /\ IdentityMatches(v, Sub(NotifClaims(e)))
         /\ Sub(NotifClaims(e)).environment = Some(v.environment)

StageInvariant ==
    /\ op # "none" =>
        \* a stage is reached only with what it stands for established
        /\ Stage >= 1 => ChainResolves(verifier, envelope)
        /\ pc = "jwt" =>
              frame.pub_key = Some(ec_point(PublicKeyBytes(Leaf(envelope))))
        /\ Stage >= 2 => Verified(verifier, envelope, ClaimType)
        /\ Stage >= 4 =>
              /\ ClaimsMatch(verifier, envelope, ClaimType)
              /\ Current.claims = deserialize(envelope, ClaimType)
        \* no claims outside the final stage
        /\ Stage < 4 => Current.claims = None
    \* a validly signed Sandbox transaction of the configured bundle comes
    \* back with that bundle id
    /\ (pc = "done" /\ op = "transaction"
          /\ verifier.environment = "Sandbox"
          /\ Verified(verifier, envelope, "transaction")
          /\ ClaimsMatch(verifier, envelope, "transaction"))
        => /\ tx_result.tag = "Ok"
           /\ Unwrap(tx_result.claims).bundle_id = Some(verifier.bundle_id)

StageStep ==
    /\ Running =>
          \* forward by at most one stage, or out of the call for good
          \/ Running' /\ Stage' \in {Stage, Stage + 1}
          \/ pc' = "done" /\ Current'.tag = "Ok" /\ pc = "environment"
          \/ pc' = "done" /\ Current'.tag \in {"Err", "Panic"}
    \* a finished call runs no further check: only a new call follows
    /\ ~Running => pc' = "decode_header" /\ Stage' = 0

\* C2: a call passes through chain verified, signature verified, identity
\* checked, environment checked in that order, never backward; each stage
\* is reached only when the checks before it passed (the chain against the
\* trusted roots, the signature under the key of that chain); claims are
\* returned only in the final stage; a failed check ends the call at once;
\* and a validly signed Sandbox transaction of the configured bundle is
\* returned with that bundle id.
C2_StageOrder == [](StageInvariant) /\ [][StageStep]_vars

\* C2 witness: a transaction call has gone through every stage and returned
\* the claims of a verified Sandbox envelope of the configured bundle.
C2_Witness ==
    /\ pc = "done" /\ op = "transaction"
    /\ verifier.environment = "Sandbox"
    /\ Verified(verifier, envelope, "transaction")
    /\ tx_result.tag = "Ok"
    /\ Unwrap(tx_result.claims).bundle_id = Some(verifier.bundle_id)
    /\ Unwrap(tx_result.claims).environment = Some("Sandbox")

\* a call run check by check returns what the call run at once returns
StagedMatchesCall ==
    pc = "done" =>
        Current = IF op = "transaction"
                  THEN verify_and_decode_signed_transaction(verifier, envelope)
                  ELSE verify_and_decode_notification(verifier, envelope)

====
